---------------------------- MODULE Spec2Model ----------------------------
(***************************************************************************)
(* N-of-M ranked retrieval: SimpleSearchEngine.evaluate                    *)
(* (src/in3120/simplesearchengine.py) driving a Ranker                     *)
(* (src/in3120/betterranker.py) and a Sieve.                               *)
(*                                                                         *)
(* Reading of the source.  Lines 63-65 of simplesearchengine.py are not    *)
(* executable as written (an unparenthesised tuple in a comprehension;     *)
(* next() and a three-argument append on the list `its`).  The loop at     *)
(* lines 75-93 destructures every element of `window` as                   *)
(* (posting, it, term), so lines 63-65 are read as building exactly those  *)
(* tuples: one per key of query_counts, in key order, holding the first    *)
(* posting of the term's iterator (False when it has none).  Everything    *)
(* from line 68 on is modelled statement by statement, including Python's  *)
(* semantics of mutating a list while iterating over it.                   *)
(*                                                                         *)
(* Terms are numbered by first occurrence in the query: term k is the k-th *)
(* key of Counter(query_terms).  An iterator is identified with its term;  *)
(* its state is the number of postings already pulled from it.             *)
(***************************************************************************)
EXTENDS Integers, Sequences, FiniteSets

\* Document ids are 0 .. MaxDoc-1.
MaxDoc == 2
\* A query has at most MaxQueryLen words.
MaxQueryLen == 3
\* hit_count ranges over 0 .. MaxHitCount.
MaxHitCount == 2
\* The posting lists handed to PostingsMerger hold document ids 0 .. MaxMergeDoc-1.
MaxMergeDoc == 4
\* The ranker protocol is driven for at most MaxRankerCalls calls.
MaxRankerCalls == 3
\* match_threshold is a multiple of 1 / ThresholdDen, held as its numerator
\* (quarters are exact binary floats, so match_threshold * M is exact).
ThresholdDen == 4
\* below 0, 0, between 0 and 1, 1.0, above 1
ThresholdNums == {-1, 0, ThresholdDen - 1, ThresholdDen, ThresholdDen + 1}

Docs == 0 .. (MaxDoc - 1)
Terms == 1 .. MaxQueryLen

VARIABLES
    query_terms,      \* list(get_terms(query))
    index,            \* term -> posting list (ascending by document_id)
    match_threshold,  \* numerator of options["match_threshold"]
    hit_count,        \* options["hit_count"]
    pc,               \* "start" | "loop" | "match" | "error"
    error,            \* "none" | "AttributeError" | "IndexError"
    M, N, window, its, i, pivot, copy,
    ranker,           \* [score, document_id] of the Ranker
    calls,            \* the calls made on the ranker, in order
    sieve,            \* the pairs the Sieve retains
    sifted,           \* the (score, document_id) pairs passed to sieve.sift, in order
    results,          \* the dictionaries yielded to the caller
    \* one call of a PostingsMerger generator
    merge,            \* "intersection" | "union" | "difference"
    list1, list2,     \* the posting lists behind iter1 and iter2
    iter1, iter2,     \* postings consumed from each iterator
    pulls1, pulls2,   \* next() calls made on each iterator
    it1, it2,         \* the current heads (None when exhausted)
    yielded,          \* the postings yielded so far
    merge_pc,         \* "start" | "loop" | "done"
    \* a client driving one BetterRanker
    call,             \* the last call made on the ranker
    outcome,          \* how it ended: "none" | "returned" | "AssertionError"
    ncalls            \* calls made so far

merger == <<merge, list1, list2, iter1, iter2, pulls1, pulls2, it1, it2, yielded, merge_pc>>

protocol == <<call, outcome, ncalls>>

vars == <<query_terms, index, match_threshold, hit_count, pc, error, M, N, window,
          its, i, pivot, copy, ranker, calls, sieve, sifted, results, merger, protocol>>

inputs == <<query_terms, index, match_threshold, hit_count>>

----------------------------------------------------------------------------
\* Sequence helpers

Max2(a, b) == IF a >= b THEN a ELSE b
Min2(a, b) == IF a <= b THEN a ELSE b

Range(s) == {s[k] : k \in 1 .. Len(s)}

\* list.remove at a known position
RemoveAt(s, k) == [j \in 1 .. (Len(s) - 1) |-> IF j < k THEN s[j] ELSE s[j + 1]]

\* index of the first element equal to x (list.remove / list.index)
RECURSIVE IndexOfFrom(_, _, _)
IndexOfFrom(s, x, k) ==
    IF k > Len(s) THEN 0
    ELSE IF s[k] = x THEN k
    ELSE IndexOfFrom(s, x, k + 1)

ListRemove(s, x) == RemoveAt(s, IndexOfFrom(s, x, 1))

\* int(): truncation towards zero of num / den (den > 0)
PyInt(num, den) == IF num >= 0 THEN num \div den ELSE -((-num) \div den)

----------------------------------------------------------------------------
\* Postings and the inverted index

\* next(it, False) returns False on an exhausted iterator
False_ == [document_id |-> -1, term_frequency |-> 0]
Truthy(posting) == posting # False_

TermFrequency(t, d) == 1 + ((t + d) % 2)

Posting(t, d) == [document_id |-> d, term_frequency |-> TermFrequency(t, d)]

\* the posting list of term t over the documents S, ascending by document id
RECURSIVE PostingList(_, _)
PostingList(t, S) ==
    IF S = {} THEN <<>>
    ELSE LET d == CHOOSE x \in S : \A y \in S : x <= y
         IN <<Posting(t, d)>> \o PostingList(t, S \ {d})

DocIds(t) == {index[t][k].document_id : k \in 1 .. Len(index[t])}

\* next(it, False) on the iterator of term t after n pulls
NextPosting(t, n) == IF n < Len(index[t]) THEN index[t][n + 1] ELSE False_
Pulled(n, t) == IF n < Len(index[t]) THEN n + 1 ELSE n

----------------------------------------------------------------------------
\* PostingsMerger.intersection: a and b are the positions of the heads it1, it2
\* (a head past the end of its list is None)

RECURSIVE IntersectionLoop(_, _, _, _)
IntersectionLoop(A, B, a, b) ==
    IF a > Len(A) \/ b > Len(B) THEN <<>>
    ELSE IF A[a].document_id > B[b].document_id THEN IntersectionLoop(A, B, a, b + 1)
    ELSE IF A[a].document_id < B[b].document_id THEN IntersectionLoop(A, B, a + 1, b)
    ELSE <<A[a]>> \o IntersectionLoop(A, B, a + 1, b + 1)

intersection(A, B) == IntersectionLoop(A, B, 1, 1)

----------------------------------------------------------------------------
\* Counter(query_terms)

\* keys in insertion (first occurrence) order
RECURSIVE CounterKeys(_)
CounterKeys(q) ==
    IF q = <<>> THEN <<>>
    ELSE LET r == CounterKeys(SubSeq(q, 1, Len(q) - 1))
             t == q[Len(q)]
         IN IF t \in Range(r) THEN r ELSE Append(r, t)

query_counts(q, t) == Cardinality({k \in 1 .. Len(q) : q[k] = t})

\* queries whose terms are numbered by first occurrence
FirstOccurrenceNumbered(q) ==
    \A k \in 1 .. Len(q) :
        \/ \E j \in 1 .. (k - 1) : q[j] = q[k]
        \/ q[k] = 1 + Cardinality({q[j] : j \in 1 .. (k - 1)})

Queries ==
    {q \in UNION {[1 .. n -> Terms] : n \in 0 .. MaxQueryLen} : FirstOccurrenceNumbered(q)}

----------------------------------------------------------------------------
\* BetterRanker.  Scores are integers: log(1 + term_frequency) is taken as
\* term_frequency and log(len(corpus) / df) as len(corpus) \div df, which keeps
\* the df > 0 guard and the additive accumulation of the source.

None == -1

RankerInit == [score |-> 0, document_id |-> None]

reset(r, document_id) == [score |-> 0, document_id |-> document_id]

\* the assertion removed
UpdateAssertsNothing(r, posting) == TRUE

\* the assertion of update
UpdateAsserts(r, posting) == r.document_id = posting.document_id

idf(term) ==
    LET df == Len(index[term])
    IN IF df > 0 THEN MaxDoc \div df ELSE 0

update(r, term, multiplicity, posting) ==
    [r EXCEPT !.score = @ + posting.term_frequency * idf(term) * multiplicity]

\* static_quality_score is absent from every document: the default 0.0 is used
evaluate(r) == r.score + 0

----------------------------------------------------------------------------
\* Sieve: at most `size` pairs, the highest scores sifted so far; an equal
\* score never replaces a retained pair.

RECURSIVE MinIndexFrom(_, _, _)
MinIndexFrom(s, k, best) ==
    IF k > Len(s) THEN best
    ELSE MinIndexFrom(s, k + 1, IF s[k].score < s[best].score THEN k ELSE best)

sift(s, size, score, item) ==
    LET e == [score |-> score, item |-> item]
    IN IF Len(s) < size THEN Append(s, e)
       ELSE IF size > 0 /\ score > s[MinIndexFrom(s, 1, 1)].score
            THEN Append(RemoveAt(s, MinIndexFrom(s, 1, 1)), e)
       ELSE s

\* stable insertion by descending score
RECURSIVE InsertDesc(_, _)
InsertDesc(s, e) ==
    IF s = <<>> THEN <<e>>
    ELSE IF Head(s).score >= e.score THEN <<Head(s)>> \o InsertDesc(Tail(s), e)
    ELSE <<e>> \o s

RECURSIVE winners(_)
winners(s) ==
    IF s = <<>> THEN <<>>
    ELSE InsertDesc(winners(SubSeq(s, 1, Len(s) - 1)), s[Len(s)])

----------------------------------------------------------------------------
\* SimpleSearchEngine.evaluate

Slot(posting, term) == [posting |-> posting, term |-> term]

\* lines 62-65: one (posting, it, term) tuple per key of query_counts
RECURSIVE FirstWindow(_)
FirstWindow(keys) ==
    IF keys = <<>> THEN <<>>
    ELSE Append(FirstWindow(SubSeq(keys, 1, Len(keys) - 1)),
                Slot(NextPosting(keys[Len(keys)], 0), keys[Len(keys)]))

\* line 60
ThresholdN(m, threshold) == Max2(1, Min2(m, PyInt(threshold * m, ThresholdDen)))

\* line 70: all(window); every element is a non-empty tuple
all_(w) == \A k \in 1 .. Len(w) : DOMAIN w[k] # {}

\* x[0].document_id raises AttributeError when x[0] is False (lines 71, 82)
HasFalse(w) == \E k \in 1 .. Len(w) : ~Truthy(w[k].posting)

\* sorted(window, key=lambda x: x[0].document_id): stable insertion sort
RECURSIVE InsertAsc(_, _)
InsertAsc(s, x) ==
    IF s = <<>> THEN <<x>>
    ELSE IF Head(s).posting.document_id <= x.posting.document_id
         THEN <<Head(s)>> \o InsertAsc(Tail(s), x)
    ELSE <<x>> \o s

RECURSIVE sorted(_)
sorted(w) ==
    IF w = <<>> THEN <<>>
    ELSE InsertAsc(sorted(SubSeq(w, 1, Len(w) - 1)), w[Len(w)])

\* lines 75-79: `for posting, it, term in window` with remove/append inside.
\* The list iterator visits position k, then k + 1, whatever happens to the list.
RECURSIVE AdvanceLoop(_, _, _, _)
AdvanceLoop(w, it, k, pivotDoc) ==
    IF k > Len(w) THEN [window |-> w, its |-> it]
    ELSE LET posting == w[k].posting
             term == w[k].term
         IN IF Truthy(posting) /\ posting.document_id < pivotDoc
            THEN AdvanceLoop(Append(RemoveAt(w, k), Slot(NextPosting(term, it[term]), term)),
                             [it EXCEPT ![term] = Pulled(@, term)],
                             k + 1, pivotDoc)
            ELSE AdvanceLoop(w, it, k + 1, pivotDoc)

\* a count that forgets to compare the document ids
CounterAnyDocument(w, d) == Cardinality({k \in 1 .. Len(w) : Truthy(w[k].posting)})

\* line 82: Counter of the document ids in the window (0 for a missing key)
Counter(w, d) == Cardinality({k \in 1 .. Len(w) : w[k].posting.document_id = d})

\* lines 83-93: `for posting, it, term in window.copy()`
RECURSIVE MatchLoop(_, _, _, _, _)
MatchLoop(st, snapshot, counted, n, k) ==
    IF k > Len(snapshot) THEN st
    ELSE LET posting == snapshot[k].posting
             term == snapshot[k].term
         IN IF Truthy(posting) /\ Counter(counted, posting.document_id) >= n
            THEN LET r1 == reset(st.ranker, posting.document_id)
                     r2 == update(r1, term, query_counts(query_terms, term), posting)
                     score == evaluate(r2)
                 IN MatchLoop(
                      [window |-> Append(ListRemove(st.window, snapshot[k]),
                                         Slot(NextPosting(term, st.its[term]), term)),
                       its |-> [st.its EXCEPT ![term] = Pulled(@, term)],
                       ranker |-> r2,
                       calls |-> st.calls \o
                           << [op |-> "reset", document_id |-> posting.document_id,
                               term |-> 0, multiplicity |-> 0],
                              [op |-> "update", document_id |-> posting.document_id,
                               term |-> term,
                               multiplicity |-> query_counts(query_terms, term)],
                              [op |-> "evaluate", document_id |-> posting.document_id,
                               term |-> 0, multiplicity |-> 0] >>,
                       sieve |-> sift(st.sieve, hit_count, score, posting.document_id),
                       sifted |-> Append(st.sifted,
                                         [score |-> score,
                                          document_id |-> posting.document_id])],
                      snapshot, counted, n, k + 1)
            ELSE MatchLoop(st, snapshot, counted, n, k + 1)

\* the indexes seen through a query: a posting list, possibly empty, for every
\* query term (the lists of other terms are never read)
Indexes(q) ==
    {[t \in Terms |-> PostingList(t, g[t])] :
        g \in {h \in [Terms -> SUBSET Docs] : \A t \in Terms \ Range(q) : h[t] = {}}}

\* no PostingsMerger call is under way
MergerIdle ==
    /\ merge = "none"
    /\ list1 = <<>>
    /\ list2 = <<>>
    /\ iter1 = 0
    /\ iter2 = 0
    /\ pulls1 = 0
    /\ pulls2 = 0
    /\ it1 = False_
    /\ it2 = False_
    /\ yielded = <<>>
    /\ merge_pc = "start"

\* no client drives the ranker by hand
ProtocolIdle ==
    /\ call = [op |-> "none", document_id |-> None, term |-> 0, multiplicity |-> 0]
    /\ outcome = "none"
    /\ ncalls = 0

Init ==
    /\ MergerIdle
    /\ ProtocolIdle
    /\ query_terms \in Queries
    /\ index \in Indexes(query_terms)
    /\ match_threshold \in ThresholdNums
    /\ hit_count \in 0 .. MaxHitCount
    /\ pc = "start"
    /\ error = "none"
    /\ M = 0
    /\ N = 0
    /\ window = <<>>
    /\ its = [t \in Terms |-> 0]
    /\ i = 0
    /\ pivot = False_
    /\ copy = <<>>
    /\ ranker = RankerInit
    /\ calls = <<>>
    /\ sieve = <<>>
    /\ sifted = <<>>
    /\ results = <<>>

\* lines 54-69
Start ==
    /\ pc = "start"
    /\ M' = Len(query_terms)
    /\ N' = ThresholdN(Len(query_terms), match_threshold)
    /\ window' = FirstWindow(CounterKeys(query_terms))
    /\ its' = [t \in Terms |-> IF t \in Range(query_terms) THEN Pulled(0, t) ELSE 0]
    /\ sieve' = <<>>
    /\ i' = 0
    /\ pc' = "loop"
    /\ UNCHANGED <<merger, protocol, inputs, error, pivot, copy, ranker, calls, sifted, results>>

\* line 71: the key function is applied to a slot holding False
PivotAttributeError ==
    /\ pc = "loop"
    /\ all_(window)
    /\ HasFalse(window)
    /\ pc' = "error"
    /\ error' = "AttributeError"
    /\ UNCHANGED <<merger, protocol, inputs, M, N, window, its, i, pivot, copy, ranker, calls, sieve,
                   sifted, results>>

\* line 71: sorted(window)[i] with i past the end of the window
PivotIndexError ==
    /\ pc = "loop"
    /\ all_(window)
    /\ ~HasFalse(window)
    /\ i >= Len(window)
    /\ pc' = "error"
    /\ error' = "IndexError"
    /\ UNCHANGED <<merger, protocol, inputs, M, N, window, its, i, pivot, copy, ranker, calls, sieve,
                   sifted, results>>

\* lines 71-79: choose the pivot, copy the window, advance the slots below the pivot
Advance ==
    /\ pc = "loop"
    /\ all_(window)
    /\ ~HasFalse(window)
    /\ i < Len(window)
    /\ LET p == sorted(window)[i + 1].posting
           a == AdvanceLoop(window, its, 1, p.document_id)
       IN /\ pivot' = p
          /\ copy' = window
          /\ window' = a.window
          /\ its' = a.its
    /\ pc' = "match"
    /\ UNCHANGED <<merger, protocol, inputs, error, M, N, i, ranker, calls, sieve, sifted, results>>

\* line 82: the Counter comprehension reads document_id of a slot holding False
CounterAttributeError ==
    /\ pc = "match"
    /\ HasFalse(window)
    /\ pc' = "error"
    /\ error' = "AttributeError"
    /\ UNCHANGED <<merger, protocol, inputs, M, N, window, its, i, pivot, copy, ranker, calls, sieve,
                   sifted, results>>

\* lines 82-100: score and advance the slots whose document fills N slots
Match ==
    /\ pc = "match"
    /\ ~HasFalse(window)
    /\ LET st == MatchLoop([window |-> window, its |-> its, ranker |-> ranker,
                            calls |-> calls, sieve |-> sieve, sifted |-> sifted],
                           window, window, N, 1)
       IN /\ window' = st.window
          /\ its' = st.its
          /\ ranker' = st.ranker
          /\ calls' = st.calls
          /\ sieve' = st.sieve
          /\ sifted' = st.sifted
          /\ i' = IF copy # st.window THEN 0 ELSE i + 1
    /\ pc' = "loop"
    /\ UNCHANGED <<merger, protocol, inputs, error, M, N, pivot, copy, results>>

Next ==
    \/ Start
    \/ PivotAttributeError
    \/ PivotIndexError
    \/ Advance
    \/ CounterAttributeError
    \/ Match

Spec == Init /\ [][Next]_vars

----------------------------------------------------------------------------
\* Vocabulary of the properties

\* the distinct query terms and the threshold they give
Mdistinct == Cardinality(Range(query_terms))
Ndistinct == ThresholdN(Mdistinct, match_threshold)

\* options inside their contract: match_threshold in [0, 1], hit_count >= 0
ValidOptions == match_threshold \in 0 .. ThresholdDen /\ hit_count >= 0

\* the query terms whose posting list holds document d
TermsWith(d) == {t \in Range(query_terms) : d \in DocIds(t)}

SiftedDocs == {sifted[k].document_id : k \in 1 .. Len(sifted)}

\* the call has stopped running (the loop of line 70 is left only by an exception)
Ended == pc = "error"

\* PostingsMerger.intersection composed over the posting lists of the query terms
RECURSIVE IntersectAll(_)
IntersectAll(keys) ==
    IF Len(keys) = 1 THEN index[keys[1]]
    ELSE intersection(IntersectAll(SubSeq(keys, 1, Len(keys) - 1)), index[keys[Len(keys)]])

\* the last reset before call k of the ranker log
LastReset(k) ==
    CHOOSE j \in 1 .. k : /\ calls[j].op = "reset"
                          /\ \A l \in (j + 1) .. k : calls[l].op # "reset"

UpdatedTerms(k) ==
    {calls[j].term : j \in {l \in LastReset(k) .. k : calls[l].op = "update"}}

----------------------------------------------------------------------------
\* C1 (completeness): when evaluate has ended on a query with M >= 1 distinct
\* terms and a threshold in [0, 1], every document id found in at least N of the
\* M posting lists has been sifted into the Sieve.
C1_Completeness ==
    (Ended /\ ValidOptions /\ Mdistinct >= 1) =>
        \A d \in Docs : Cardinality(TermsWith(d)) >= Ndistinct => d \in SiftedDocs

C5_Threshold ==
    (pc # "start" /\ ValidOptions) =>
        /\ M = Mdistinct
        /\ N = Ndistinct
        /\ (Mdistinct >= 1 => (1 <= N /\ N <= Mdistinct))

\* C6 (N = M is AND): with match_threshold = 1.0, when evaluate has ended the
\* set of sifted document ids is the set of document ids of
\* PostingsMerger.intersection composed across the M posting lists.
C6_AndEquivalence ==
    (Ended /\ match_threshold = ThresholdDen /\ Mdistinct >= 1) =>
        SiftedDocs = {p.document_id : p \in Range(IntersectAll(CounterKeys(query_terms)))}

\* C7 (empty query): with no query terms evaluate does not enter an error
\* state, and neither calls the ranker nor sifts anything.
C7_EmptyQueryNoError ==
    (query_terms = <<>> /\ ValidOptions) =>
        (pc # "error" /\ calls = <<>> /\ sifted = <<>>)

\* C8 (absent term): a query term without postings never causes an error.
C8_AbsentTermNoError ==
    (ValidOptions /\ \E t \in Range(query_terms) : index[t] = <<>>) => pc # "error"

----------------------------------------------------------------------------
\* PostingsMerger: one generator call, one action per pass of its while loop

engine == <<query_terms, index, match_threshold, hit_count, pc, error, M, N, window,
            its, i, pivot, copy, ranker, calls, sieve, sifted, results>>

\* no evaluate call is under way
EngineIdle ==
    /\ query_terms = <<>>
    /\ index = [t \in Terms |-> <<>>]
    /\ match_threshold = 0
    /\ hit_count = 0
    /\ pc = "start"
    /\ error = "none"
    /\ M = 0
    /\ N = 0
    /\ window = <<>>
    /\ its = [t \in Terms |-> 0]
    /\ i = 0
    /\ pivot = False_
    /\ copy = <<>>
    /\ ranker = RankerInit
    /\ calls = <<>>
    /\ sieve = <<>>
    /\ sifted = <<>>
    /\ results = <<>>

MergeDocs == 0 .. (MaxMergeDoc - 1)

\* next(iter, None) returns None on an exhausted iterator; None is falsy
NonePosting == [document_id |-> -1, term_frequency |-> 0]
Present(posting) == posting # NonePosting

\* next(iter, None) on an iterator over `postings` after n postings were consumed
MergerNext(postings, n) == IF n < Len(postings) THEN postings[n + 1] ELSE NonePosting
Consumed(postings, n) == IF n < Len(postings) THEN n + 1 ELSE n

\* it1 = next(iter1, None)
Next1 ==
    /\ it1' = MergerNext(list1, iter1)
    /\ iter1' = Consumed(list1, iter1)
    /\ pulls1' = pulls1 + 1

\* it2 = next(iter2, None)
Next2 ==
    /\ it2' = MergerNext(list2, iter2)
    /\ iter2' = Consumed(list2, iter2)
    /\ pulls2' = pulls2 + 1

Keep1 == UNCHANGED <<it1, iter1, pulls1>>
Keep2 == UNCHANGED <<it2, iter2, pulls2>>

Yield(posting) == yielded' = Append(yielded, posting)

MergerFrame == UNCHANGED <<engine, protocol, merge, list1, list2>>

\* the two lists carry different term frequencies for the same document, so the
\* origin of a yielded posting is visible
MergerInit ==
    /\ EngineIdle
    /\ ProtocolIdle
    /\ merge \in {"intersection", "union", "difference"}
    /\ list1 \in {PostingList(1, S) : S \in SUBSET MergeDocs}
    /\ list2 \in {PostingList(2, S) : S \in SUBSET MergeDocs}
    /\ iter1 = 0
    /\ iter2 = 0
    /\ pulls1 = 0
    /\ pulls2 = 0
    /\ it1 = NonePosting
    /\ it2 = NonePosting
    /\ yielded = <<>>
    /\ merge_pc = "start"

\* lines 30-31, 53-54, 89-90
MergerStart ==
    /\ merge_pc = "start"
    /\ Next1
    /\ Next2
    /\ merge_pc' = "loop"
    /\ UNCHANGED yielded
    /\ MergerFrame

\* intersection, line 33: `while it1 and it2` fails
IntersectionExit ==
    /\ merge_pc = "loop" /\ merge = "intersection"
    /\ ~(Present(it1) /\ Present(it2))
    /\ merge_pc' = "done"
    /\ Keep1 /\ Keep2 /\ UNCHANGED yielded /\ MergerFrame

\* intersection, lines 35-36
IntersectionGreater ==
    /\ merge_pc = "loop" /\ merge = "intersection"
    /\ Present(it1) /\ Present(it2)
    /\ it1.document_id > it2.document_id
    /\ Keep1 /\ Next2
    /\ UNCHANGED <<yielded, merge_pc>> /\ MergerFrame

\* intersection, lines 37-38
IntersectionLess ==
    /\ merge_pc = "loop" /\ merge = "intersection"
    /\ Present(it1) /\ Present(it2)
    /\ ~(it1.document_id > it2.document_id)
    /\ it1.document_id < it2.document_id
    /\ Next1 /\ Keep2
    /\ UNCHANGED <<yielded, merge_pc>> /\ MergerFrame

\* the equal case without its yield
IntersectionEqualSilent ==
    /\ merge_pc = "loop" /\ merge = "intersection"
    /\ Present(it1) /\ Present(it2)
    /\ ~(it1.document_id > it2.document_id)
    /\ ~(it1.document_id < it2.document_id)
    /\ Next1 /\ Next2
    /\ UNCHANGED <<yielded, merge_pc>> /\ MergerFrame

\* intersection, lines 39-42
IntersectionEqual ==
    /\ merge_pc = "loop" /\ merge = "intersection"
    /\ Present(it1) /\ Present(it2)
    /\ ~(it1.document_id > it2.document_id)
    /\ ~(it1.document_id < it2.document_id)
    /\ Yield(it1)
    /\ Next1 /\ Next2
    /\ UNCHANGED merge_pc /\ MergerFrame

\* union, line 56: `while it1 or it2` fails
UnionExit ==
    /\ merge_pc = "loop" /\ merge = "union"
    /\ ~(Present(it1) \/ Present(it2))
    /\ merge_pc' = "done"
    /\ Keep1 /\ Keep2 /\ UNCHANGED yielded /\ MergerFrame

\* union, lines 58-60
UnionOnly1 ==
    /\ merge_pc = "loop" /\ merge = "union"
    /\ Present(it1) /\ ~Present(it2)
    /\ Yield(it1)
    /\ Next1 /\ Keep2
    /\ UNCHANGED merge_pc /\ MergerFrame

\* union, lines 61-63
UnionOnly2 ==
    /\ merge_pc = "loop" /\ merge = "union"
    /\ Present(it2) /\ ~Present(it1)
    /\ Yield(it2)
    /\ Keep1 /\ Next2
    /\ UNCHANGED merge_pc /\ MergerFrame

\* union, lines 66-68
UnionGreater ==
    /\ merge_pc = "loop" /\ merge = "union"
    /\ Present(it1) /\ Present(it2)
    /\ it1.document_id > it2.document_id
    /\ Yield(it2)
    /\ Keep1 /\ Next2
    /\ UNCHANGED merge_pc /\ MergerFrame

\* union, lines 69-71
UnionLess ==
    /\ merge_pc = "loop" /\ merge = "union"
    /\ Present(it1) /\ Present(it2)
    /\ ~(it1.document_id > it2.document_id)
    /\ it1.document_id < it2.document_id
    /\ Yield(it1)
    /\ Next1 /\ Keep2
    /\ UNCHANGED merge_pc /\ MergerFrame

\* the equal case advancing only iter1, so that it2 is yielded again later
UnionEqualKeeps2 ==
    /\ merge_pc = "loop" /\ merge = "union"
    /\ Present(it1) /\ Present(it2)
    /\ ~(it1.document_id > it2.document_id)
    /\ ~(it1.document_id < it2.document_id)
    /\ Yield(it1)
    /\ Next1 /\ Keep2
    /\ UNCHANGED merge_pc /\ MergerFrame

\* union, lines 72-75
UnionEqual ==
    /\ merge_pc = "loop" /\ merge = "union"
    /\ Present(it1) /\ Present(it2)
    /\ ~(it1.document_id > it2.document_id)
    /\ ~(it1.document_id < it2.document_id)
    /\ Yield(it1)
    /\ Next1 /\ Next2
    /\ UNCHANGED merge_pc /\ MergerFrame

\* difference, line 92: `while it1 or it2` fails
DifferenceExit ==
    /\ merge_pc = "loop" /\ merge = "difference"
    /\ ~(Present(it1) \/ Present(it2))
    /\ merge_pc' = "done"
    /\ Keep1 /\ Keep2 /\ UNCHANGED yielded /\ MergerFrame

\* difference, lines 94-96
DifferenceOnly1 ==
    /\ merge_pc = "loop" /\ merge = "difference"
    /\ Present(it1) /\ ~Present(it2)
    /\ Yield(it1)
    /\ Next1 /\ Keep2
    /\ UNCHANGED merge_pc /\ MergerFrame

\* the branch leaving it2 as it is
DifferenceOnly2Idle ==
    /\ merge_pc = "loop" /\ merge = "difference"
    /\ Present(it2) /\ ~Present(it1)
    /\ UNCHANGED vars

\* difference, lines 97-98: it2 = None, without a pull
DifferenceOnly2 ==
    /\ merge_pc = "loop" /\ merge = "difference"
    /\ Present(it2) /\ ~Present(it1)
    /\ it2' = NonePosting
    /\ Keep1
    /\ UNCHANGED <<iter2, pulls2, yielded, merge_pc>> /\ MergerFrame

\* difference, lines 101-102
DifferenceGreater ==
    /\ merge_pc = "loop" /\ merge = "difference"
    /\ Present(it1) /\ Present(it2)
    /\ it1.document_id > it2.document_id
    /\ Keep1 /\ Next2
    /\ UNCHANGED <<yielded, merge_pc>> /\ MergerFrame

\* difference, lines 103-105
DifferenceLess ==
    /\ merge_pc = "loop" /\ merge = "difference"
    /\ Present(it1) /\ Present(it2)
    /\ ~(it1.document_id > it2.document_id)
    /\ it1.document_id < it2.document_id
    /\ Yield(it1)
    /\ Next1 /\ Keep2
    /\ UNCHANGED merge_pc /\ MergerFrame

\* the equal case yielding it1 as the less case does
DifferenceEqualYields ==
    /\ merge_pc = "loop" /\ merge = "difference"
    /\ Present(it1) /\ Present(it2)
    /\ ~(it1.document_id > it2.document_id)
    /\ ~(it1.document_id < it2.document_id)
    /\ Yield(it1)
    /\ Next1 /\ Next2
    /\ UNCHANGED merge_pc /\ MergerFrame

\* difference, lines 106-108
DifferenceEqual ==
    /\ merge_pc = "loop" /\ merge = "difference"
    /\ Present(it1) /\ Present(it2)
    /\ ~(it1.document_id > it2.document_id)
    /\ ~(it1.document_id < it2.document_id)
    /\ Next1 /\ Next2
    /\ UNCHANGED <<yielded, merge_pc>> /\ MergerFrame

MergerNextStep ==
    \/ MergerStart
    \/ IntersectionExit
    \/ IntersectionGreater
    \/ IntersectionLess
    \/ IntersectionEqual
    \/ UnionExit
    \/ UnionOnly1
    \/ UnionOnly2
    \/ UnionGreater
    \/ UnionLess
    \/ UnionEqual
    \/ DifferenceExit
    \/ DifferenceOnly1
    \/ DifferenceOnly2
    \/ DifferenceGreater
    \/ DifferenceLess
    \/ DifferenceEqual

MergerSpec == MergerInit /\ [][MergerNextStep]_vars

\* the consumer drains the generator: the generator body keeps running
MergerFairSpec == MergerSpec /\ WF_vars(MergerNextStep)

\* the document ids of a posting list
Ids(postings) == {postings[k].document_id : k \in 1 .. Len(postings)}

StrictlyAscending(postings) ==
    \A k \in 1 .. (Len(postings) - 1) :
        postings[k].document_id < postings[k + 1].document_id

\* the postings of list1 that satisfy Keep, in list1's order
RECURSIVE Filter1(_, _)
Filter1(postings, keep) ==
    IF postings = <<>> THEN <<>>
    ELSE IF Head(postings).document_id \in keep
         THEN <<Head(postings)>> \o Filter1(Tail(postings), keep)
    ELSE Filter1(Tail(postings), keep)

MergeDone(op) == merge = op /\ merge_pc = "done"

----------------------------------------------------------------------------
\* C11 (intersection): when intersection(A, B) has finished, the ids it yielded
\* are exactly the ids in both A and B; at every moment the yielded ids are
\* strictly ascending (so none is yielded twice) and all lie in both lists.
C11_Intersection ==
    merge = "intersection" =>
        /\ StrictlyAscending(yielded)
        /\ Ids(yielded) \subseteq (Ids(list1) \cap Ids(list2))
        /\ merge_pc = "done" => Ids(yielded) = Ids(list1) \cap Ids(list2)

\* C11 witness: intersection has finished on two lists that share two ids and
\* each hold an id the other lacks, one of them running out first.
C11_Witness ==
    /\ MergeDone("intersection")
    /\ Len(yielded) >= 2
    /\ Ids(list1) \ Ids(list2) # {}
    /\ Ids(list2) \ Ids(list1) # {}

\* C12 (union): when union(A, B) has finished, the ids it yielded are exactly
\* the ids in A or in B; at every moment the yielded ids are strictly ascending
\* (each at most once), none is foreign, and the posting yielded for an id that
\* A holds is A's posting.
C12_Union ==
    merge = "union" =>
        /\ StrictlyAscending(yielded)
        /\ Ids(yielded) \subseteq (Ids(list1) \cup Ids(list2))
        /\ \A k \in 1 .. Len(yielded) :
               yielded[k].document_id \in Ids(list1) => yielded[k] \in Range(list1)
        /\ merge_pc = "done" => Ids(yielded) = Ids(list1) \cup Ids(list2)

\* C12 witness: union has finished on two lists that share an id and each hold
\* an id the other lacks.
C12_Witness ==
    /\ MergeDone("union")
    /\ Ids(list1) \cap Ids(list2) # {}
    /\ Ids(list1) \ Ids(list2) # {}
    /\ Ids(list2) \ Ids(list1) # {}

\* C13 (difference): what difference(A, B) has yielded is always a prefix of the
\* postings of A whose id is not in B, in A's order, and is all of them when it
\* has finished.
C13_Difference ==
    merge = "difference" =>
        LET expected == Filter1(list1, Ids(list1) \ Ids(list2))
        IN /\ Len(yielded) <= Len(expected)
           /\ yielded = SubSeq(expected, 1, Len(yielded))
           /\ merge_pc = "done" => yielded = expected

\* C13 witness: difference has finished with B longer than A, an id in both
\* and a posting of A yielded.
C13_Witness ==
    /\ MergeDone("difference")
    /\ Len(list2) > Len(list1)
    /\ Ids(list1) \cap Ids(list2) # {}
    /\ yielded # <<>>

\* C16 (single forward pass): every pass of a merge loop pulls from iter1 or
\* iter2 or leaves the loop finished (exits, or clears the last head); no
\* iterator moves backwards; never more than |A|+1 pulls from A nor |B|+1 from
\* B; and the generator finishes.
C16_ForwardPass ==
    /\ [][merge_pc = "loop" =>
            /\ \/ pulls1' > pulls1
               \/ pulls2' > pulls2
               \/ merge_pc' = "done"
               \/ ~Present(it1') /\ ~Present(it2')
            /\ iter1' >= iter1
            /\ iter2' >= iter2]_vars
    /\ [](pulls1 <= Len(list1) + 1 /\ pulls2 <= Len(list2) + 1)
    /\ <>(merge_pc = "done")

\* C16 witness: a merge has finished after pulling |A|+1 times from A and
\* |B|+1 times from B, both lists non-empty.
C16_Witness ==
    /\ merge_pc = "done"
    /\ list1 # <<>> /\ list2 # <<>>
    /\ pulls1 = Len(list1) + 1
    /\ pulls2 = Len(list2) + 1

----------------------------------------------------------------------------
\* BetterRanker driven by an arbitrary client: any sequence of reset, update
\* and evaluate calls, in or out of protocol

Call(op, document_id, term, multiplicity) ==
    [op |-> op, document_id |-> document_id, term |-> term,
     multiplicity |-> multiplicity]

\* the terms the client asks about, and how often a term may occur in a query
ClientTerms == {1, 2}
Multiplicities == {1, 2}

ClientFrame ==
    UNCHANGED <<merger, query_terms, index, match_threshold, hit_count, pc, error,
                M, N, window, its, i, pivot, copy, calls, sieve, sifted, results>>

ClientInit ==
    /\ MergerIdle
    /\ ProtocolIdle
    /\ query_terms = <<1, 2>>
    /\ index \in Indexes(query_terms)
    /\ match_threshold = 0
    /\ hit_count = 0
    /\ pc = "start"
    /\ error = "none"
    /\ M = 0
    /\ N = 0
    /\ window = <<>>
    /\ its = [t \in Terms |-> 0]
    /\ i = 0
    /\ pivot = False_
    /\ copy = <<>>
    /\ ranker = RankerInit
    /\ calls = <<>>
    /\ sieve = <<>>
    /\ sifted = <<>>
    /\ results = <<>>

\* lines 35-37
ClientReset ==
    /\ ncalls < MaxRankerCalls
    /\ \E d \in Docs :
         /\ ranker' = reset(ranker, d)
         /\ call' = Call("reset", d, 0, 0)
    /\ outcome' = "returned"
    /\ ncalls' = ncalls + 1
    /\ ClientFrame

\* lines 39-46, the assertion holding
ClientUpdate ==
    /\ ncalls < MaxRankerCalls
    /\ \E term \in ClientTerms, multiplicity \in Multiplicities, d \in Docs :
         /\ UpdateAsserts(ranker, Posting(term, d))
         /\ ranker' = update(ranker, term, multiplicity, Posting(term, d))
         /\ call' = Call("update", d, term, multiplicity)
    /\ outcome' = "returned"
    /\ ncalls' = ncalls + 1
    /\ ClientFrame

\* line 40, the assertion failing: nothing after it runs
ClientUpdateAssertionError ==
    /\ ncalls < MaxRankerCalls
    /\ \E term \in ClientTerms, multiplicity \in Multiplicities, d \in Docs :
         /\ ~UpdateAsserts(ranker, Posting(term, d))
         /\ call' = Call("update", d, term, multiplicity)
    /\ ranker' = ranker
    /\ outcome' = "AssertionError"
    /\ ncalls' = ncalls + 1
    /\ ClientFrame

\* lines 48-55, on a document the ranker was reset to
ClientEvaluate ==
    /\ ncalls < MaxRankerCalls
    /\ ranker.document_id # None
    /\ call' = Call("evaluate", ranker.document_id, 0, evaluate(ranker))
    /\ ranker' = ranker
    /\ outcome' = "returned"
    /\ ncalls' = ncalls + 1
    /\ ClientFrame

ClientNext ==
    \/ ClientReset
    \/ ClientUpdate
    \/ ClientUpdateAssertionError
    \/ ClientEvaluate

ClientSpec == ClientInit /\ [][ClientNext]_vars

----------------------------------------------------------------------------
\* C14 (update fails fast): an update call whose posting carries a document id
\* other than the one of the most recent reset (or made before any reset) ends
\* in an AssertionError and leaves the score and the current document id as
\* they were.
C14_UpdateFailsFast ==
    [][(/\ ncalls' = ncalls + 1
        /\ call'.op = "update"
        /\ call'.document_id # ranker.document_id)
       => (outcome' = "AssertionError" /\ ranker' = ranker)]_vars

\* C14 witness: an update for another document has just failed on a ranker
\* that was reset and had accumulated a score.
C14_Witness ==
    /\ outcome = "AssertionError"
    /\ call.op = "update"
    /\ ranker.document_id # None
    /\ call.document_id # ranker.document_id
    /\ ranker.score > 0

----------------------------------------------------------------------------
\* C15 (termination without error): on a query with M >= 1 terms and a threshold
\* in [0, 1], evaluate never ends in an error: the pivot selection never indexes
\* past the frontier (IndexError) nor dereferences an exhausted slot
\* (AttributeError).
C15_NoError ==
    (ValidOptions /\ Mdistinct >= 1) => pc # "error"

============================================================================
